---------------------------- MODULE Spec2Model ----------------------------
(***************************************************************************)
(* Model of handymatt's BookmarksGetter (src/src/handymatt/                *)
(* bookmarks_getter.py): construction (browser family and bookmarks file   *)
(* path), the flattening walk over a Chromium bookmarks tree, the epoch    *)
(* conversion, and the filter / sort pipeline of get_bookmarks.            *)
(*                                                                         *)
(* Python strings that the code transforms (lower(), split(), `in`,        *)
(* slicing, comparison) are sequences of one-character strings.  Strings   *)
(* the code only passes around or uses as keys of its own objects          *)
(* (attribute names, exception names, path components) are TLA+ strings.   *)
(* An optional value (x: T|None) is a sequence of length at most one.      *)
(***************************************************************************)
EXTENDS Integers, Sequences, FiniteSets, TLC

VARIABLES
    platform,   \* what platform.system() / platform.release() answer
    environ,    \* os.environ's LOCALAPPDATA: None or Some(path)
    disk,       \* the filesystem: path -> roots.bookmark_bar.children of that file
    getter,     \* the BookmarksGetter instance: None or Some([browser_family, bookmarks_file])
    call,       \* the operation last invoked, with its arguments
    ret         \* what that operation returned or raised

vars == <<platform, environ, disk, getter, call, ret>>

-----------------------------------------------------------------------------
(* Python values *)

None == << >>
Some(x) == << x >>
IsNone(o) == o = << >>
Val(o) == o[1]

Range(s) == { s[i] : i \in DOMAIN s }

Returned(v) == [kind |-> "return", val |-> v]
Raised(exc, arg) == [kind |-> "raise", exc |-> exc, arg |-> arg]

Idle == [op |-> "idle"]
NoRet == [kind |-> "none"]

-----------------------------------------------------------------------------
(* Characters and strings *)

Alphabet ==
    <<" ", "%", "-", ".", "/",
      "0", "1", "2", "3", "4", "5", "6", "7", "8", "9", ":",
      "A", "B", "C", "D", "E", "F", "G", "H", "I", "J", "K", "L", "M",
      "N", "O", "P", "Q", "R", "S", "T", "U", "V", "W", "X", "Y", "Z", "_",
      "a", "b", "c", "d", "e", "f", "g", "h", "i", "j", "k", "l",
      "m", "n", "o", "p", "q", "r", "s", "t", "u", "v", "w", "x", "y", "z">>

Uppers ==
    <<"A", "B", "C", "D", "E", "F", "G", "H", "I", "J", "K", "L", "M",
      "N", "O", "P", "Q", "R", "S", "T", "U", "V", "W", "X", "Y", "Z">>

Lowers ==
    <<"a", "b", "c", "d", "e", "f", "g", "h", "i", "j", "k", "l", "m",
      "n", "o", "p", "q", "r", "s", "t", "u", "v", "w", "x", "y", "z">>

Digits == <<"0", "1", "2", "3", "4", "5", "6", "7", "8", "9">>

\* Code-point order of the characters (their position in Alphabet).
Ord == [c \in Range(Alphabet) |-> CHOOSE i \in DOMAIN Alphabet : Alphabet[i] = c]

LowerMap == [c \in Range(Uppers) |-> Lowers[CHOOSE i \in DOMAIN Uppers : Uppers[i] = c]]

DigitVal == [c \in Range(Digits) |-> (CHOOSE i \in DOMAIN Digits : Digits[i] = c) - 1]

\* str.lower()
Lower(s) == [i \in DOMAIN s |-> IF s[i] \in DOMAIN LowerMap THEN LowerMap[s[i]] ELSE s[i]]

\* needle in hay, for two strings
Contains(needle, hay) ==
    \E i \in 0..(Len(hay) - Len(needle)) : SubSeq(hay, i + 1, i + Len(needle)) = needle

\* s.split(sep) for a one-character sep
RECURSIVE SplitFrom(_, _, _)
SplitFrom(s, sep, cur) ==
    IF s = << >> THEN << cur >>
    ELSE IF Head(s) = sep THEN << cur >> \o SplitFrom(Tail(s), sep, << >>)
    ELSE SplitFrom(Tail(s), sep, Append(cur, Head(s)))

Split(s, sep) == SplitFrom(s, sep, << >>)

\* a < b for two strings (lexicographic by code point)
RECURSIVE StrLess(_, _)
StrLess(a, b) ==
    IF b = << >> THEN FALSE
    ELSE IF a = << >> THEN TRUE
    ELSE IF Head(a) = Head(b) THEN StrLess(Tail(a), Tail(b))
    ELSE Ord[Head(a)] < Ord[Head(b)]

\* "%0<w>d" % n
RECURSIVE Pad(_, _)
Pad(n, w) ==
    IF w <= 1 /\ n < 10 THEN << Digits[n + 1] >>
    ELSE Append(Pad(n \div 10, w - 1), Digits[(n % 10) + 1])

-----------------------------------------------------------------------------
(* _windows_epoch_readable *)

\* int(us) followed by timedelta(microseconds=...)'s normalisation into
\* (days, seconds, microseconds), digit by digit so that no intermediate
\* value leaves 32 bits.
RECURSIVE TimedeltaFromDigits(_, _)
TimedeltaFromDigits(us, acc) ==
    IF us = << >> THEN acc
    ELSE LET m == acc.microseconds * 10 + DigitVal[Head(us)]
             s == acc.seconds * 10 + (m \div 1000000)
             d == acc.days * 10 + (s \div 86400)
         IN  TimedeltaFromDigits(Tail(us),
                [days |-> d, seconds |-> s % 86400, microseconds |-> m % 1000000])

Timedelta(us) == TimedeltaFromDigits(us, [days |-> 0, seconds |-> 0, microseconds |-> 0])

DaysBeforeMonth == <<0, 31, 59, 90, 120, 151, 181, 212, 243, 273, 304, 334>>
DaysInMonth == <<31, 28, 31, 30, 31, 30, 31, 31, 30, 31, 30, 31>>

\* datetime's ordinal -> (year, month, day)
Ord2Ymd(ordinal) ==
    LET n0 == ordinal - 1
        n400 == n0 \div 146097
        r400 == n0 % 146097
        n100 == r400 \div 36524
        r100 == r400 % 36524
        n4 == r100 \div 1461
        r4 == r100 % 1461
        n1 == r4 \div 365
        n == r4 % 365
        year == n400 * 400 + 1 + n100 * 100 + n4 * 4 + n1
        leap == n1 = 3 /\ (n4 # 24 \/ n100 = 3)
        m0 == (n + 50) \div 32
        p0 == DaysBeforeMonth[m0] + (IF m0 > 2 /\ leap THEN 1 ELSE 0)
        month == IF p0 > n THEN m0 - 1 ELSE m0
        preceding == IF p0 > n
                     THEN p0 - (DaysInMonth[month] + (IF month = 2 /\ leap THEN 1 ELSE 0))
                     ELSE p0
    IN  IF n1 = 4 \/ n100 = 4
        THEN [year |-> year - 1, month |-> 12, day |-> 31]
        ELSE [year |-> year, month |-> month, day |-> n - preceding + 1]

\* datetime.datetime(1601, 1, 1).toordinal()
WindowsEpochOrdinal == 584389

\* datetime.max.toordinal(): 9999-12-31
MaxOrdinal == 3652059

\* windows_epoch_start + timedelta: the datetime, or out of range
DatetimeInRange(td) == WindowsEpochOrdinal + td.days <= MaxOrdinal

EpochPlus(td) ==
    LET ymd == Ord2Ymd(WindowsEpochOrdinal + td.days)
    IN  [year |-> ymd.year, month |-> ymd.month, day |-> ymd.day,
         hour |-> td.seconds \div 3600, minute |-> (td.seconds % 3600) \div 60,
         second |-> td.seconds % 60, microsecond |-> td.microseconds]

\* "YYYY-MM-DD HH:MM:SS", the 19 characters
IsoSeconds(dt) ==
    Pad(dt.year, 4) \o <<"-">> \o Pad(dt.month, 2) \o <<"-">> \o Pad(dt.day, 2)
    \o <<" ">> \o Pad(dt.hour, 2) \o <<":">> \o Pad(dt.minute, 2)
    \o <<":">> \o Pad(dt.second, 2)

\* str(datetime): the fraction is printed only when microsecond is not 0
StrDatetime(dt) ==
    IF dt.microsecond # 0
    THEN IsoSeconds(dt) \o <<".">> \o Pad(dt.microsecond, 6)
    ELSE IsoSeconds(dt)

\* s[:-k]
DropLast(s, k) == SubSeq(s, 1, Len(s) - k)

windows_epoch_readable(us) ==
    LET td == Timedelta(us)
    IN  IF td.days > 999999999 \/ ~DatetimeInRange(td)
        THEN Raised("OverflowError", us)
        ELSE Returned(DropLast(StrDatetime(EpochPlus(td)), 7))

-----------------------------------------------------------------------------
(* The bookmarks file: roots.bookmark_bar.children is a sequence of nodes.   *)
(* A url node is a record with type, id, name, url, date_added,              *)
(* date_last_used, possibly date_modified, and keys Bookmark does not have   *)
(* (guid).  A folder node is a record with type, name and children.          *)

TypeUrl == <<"u", "r", "l">>
TypeFolder == <<"f", "o", "l", "d", "e", "r">>

\* f'{location}/{name}' if location else name
NewLocation(location, name) ==
    IF ~IsNone(location) /\ Val(location) # << >>
    THEN Val(location) \o <<"/">> \o name
    ELSE name

\* the url branch of the walk: the node with location and readable dates
AnnotateUrl(obj, location) ==
    LET loc == IF ~IsNone(location) /\ Val(location) # << >> THEN Val(location) ELSE << >>
        conv == [k \in DOMAIN obj |->
                    IF k \in {"date_added", "date_last_used"}
                       \/ (k = "date_modified" /\ obj[k] # << >>)
                    THEN windows_epoch_readable(obj[k]).val
                    ELSE obj[k]]
    IN  [location |-> loc] @@ conv

RECURSIVE process_Chrome_bookmarks_as_list(_, _)

\* Faulty variant: the folder branch overwrites `location` instead of binding
\* new_location, so the siblings after a folder inherit the folder's path.
process_Chrome_bookmarks_as_list_LocationLeaks(array, location) ==
    IF array = << >> THEN << >>
    ELSE LET obj == Head(array)
             sub == Some(NewLocation(location, obj.name))
         IN  IF obj.type = TypeUrl
             THEN << AnnotateUrl(obj, location) >>
                  \o process_Chrome_bookmarks_as_list(Tail(array), location)
             ELSE IF obj.type = TypeFolder
             THEN process_Chrome_bookmarks_as_list(obj.children, sub)
                  \o process_Chrome_bookmarks_as_list(Tail(array), sub)
             ELSE process_Chrome_bookmarks_as_list(Tail(array), location)

process_Chrome_bookmarks_as_list(array, location) ==
    IF array = << >> THEN << >>
    ELSE LET obj == Head(array)
             here == IF obj.type = TypeUrl
                     THEN << AnnotateUrl(obj, location) >>
                     ELSE IF obj.type = TypeFolder
                     THEN process_Chrome_bookmarks_as_list(
                              obj.children, Some(NewLocation(location, obj.name)))
                     ELSE << >>
         IN  here \o process_Chrome_bookmarks_as_list(Tail(array), location)

\* every date the walk converts is one the conversion accepts
RECURSIVE DatesReadable(_)
DatesReadable(array) ==
    \A i \in DOMAIN array :
        LET obj == array[i]
        IN  IF obj.type = TypeUrl
            THEN \A k \in DOMAIN obj \cap {"date_added", "date_last_used", "date_modified"} :
                    (k = "date_modified" /\ obj[k] = << >>)
                    \/ windows_epoch_readable(obj[k]).kind = "return"
            ELSE IF obj.type = TypeFolder THEN DatesReadable(obj.children)
            ELSE TRUE

read_bookmarks_Chrome(fs, file) ==
    IF file \notin DOMAIN fs THEN Raised("FileNotFoundError", file)
    ELSE IF ~DatesReadable(fs[file]) THEN Raised("OverflowError", file)
    ELSE Returned(process_Chrome_bookmarks_as_list(fs[file], None))

-----------------------------------------------------------------------------
(* Bookmark *)

BookmarkFields ==
    {"id", "name", "type", "url", "location", "date_added", "date_last_used", "date_modified"}

\* Bookmark(**filtered): unknown keys dropped, date_modified defaults to ""
bookmark_from_json(data) ==
    LET filtered == [k \in DOMAIN data \cap BookmarkFields |-> data[k]]
    IN  filtered @@ [date_modified |-> << >>]

convert_bookmarks_to_objects(dicts) == [i \in DOMAIN dicts |-> bookmark_from_json(dicts[i])]

-----------------------------------------------------------------------------
(* list.sort(key=..., reverse=...) *)

Reverse(s) == [i \in DOMAIN s |-> s[Len(s) + 1 - i]]

\* x goes before the first element whose key is greater than x's
RECURSIVE InsertByKey(_, _)
InsertByKey(x, sorted) ==
    IF sorted = << >> THEN << x >>
    ELSE IF StrLess(x.key, Head(sorted).key) THEN << x >> \o sorted
    ELSE << Head(sorted) >> \o InsertByKey(x, Tail(sorted))

RECURSIVE StableAscending(_, _)
StableAscending(pairs, sorted) ==
    IF pairs = << >> THEN sorted
    ELSE StableAscending(Tail(pairs), InsertByKey(Head(pairs), sorted))

\* Faulty variant: a reverse sort is an ascending sort read backwards, which also
\* turns around the elements of equal key.
ListSortThenReverse(items, keys, reverse) ==
    LET pairs == [i \in DOMAIN items |-> [key |-> keys[i], item |-> items[i]]]
        sorted == IF reverse
                  THEN Reverse(StableAscending(pairs, << >>))
                  ELSE StableAscending(pairs, << >>)
    IN  [i \in DOMAIN sorted |-> sorted[i].item]

\* The keys are computed first, for every element; a reverse sort reverses,
\* sorts ascending and reverses again, so equal keys keep their order.
ListSort(items, keys, reverse) ==
    LET pairs == [i \in DOMAIN items |-> [key |-> keys[i], item |-> items[i]]]
        sorted == IF reverse
                  THEN Reverse(StableAscending(Reverse(pairs), << >>))
                  ELSE StableAscending(pairs, << >>)
    IN  [i \in DOMAIN sorted |-> sorted[i].item]

SelectSeqBy(s, keep) ==
    LET F[i \in 0..Len(s)] ==
            IF i = 0 THEN << >>
            ELSE IF keep[i] THEN Append(F[i - 1], s[i]) ELSE F[i - 1]
    IN  F[Len(s)]

-----------------------------------------------------------------------------
(* get_bookmarks *)

\* the domain argument: str | list[str] | None
DomainNone == [kind |-> "none"]
DomainStr(s) == [kind |-> "str", val |-> s]
DomainList(l) == [kind |-> "list", val |-> l]

\* bool(domain)
DomainTruthy(domain) == domain.kind # "none" /\ domain.val # << >>

\* if domain and not isinstance(domain, list): domain = [domain]
WrapDomain(domain) ==
    IF DomainTruthy(domain) /\ domain.kind # "list"
    THEN DomainList(<< domain.val >>)
    ELSE domain

\* what `for dom in domain` yields: the elements of a list, the characters of a str
DomainItems(domain) ==
    IF domain.kind = "list" THEN domain.val
    ELSE [i \in DOMAIN domain.val |-> << domain.val[i] >>]

\* Faulty variant: a foldername without "/" must be the whole location.
FolderKeepsWholeLocation(foldername, b) ==
    LET f == Lower(foldername)
    IN  IF Contains(<<"/">>, f)
        THEN Contains(f, Lower(b.location))
        ELSE f = Lower(b.location)

\* Faulty variant: the substring test whether or not foldername has a "/".
FolderKeepsSubstring(foldername, b) ==
    Contains(Lower(foldername), Lower(b.location))

FolderKeeps(foldername, b) ==
    LET f == Lower(foldername)
    IN  IF Contains(<<"/">>, f)
        THEN Contains(f, Lower(b.location))
        ELSE f \in Range(Split(Lower(b.location), "/"))

FilterFolder(bookmarks, foldername) ==
    IF IsNone(foldername) THEN bookmarks
    ELSE SelectSeqBy(bookmarks,
            [i \in DOMAIN bookmarks |-> FolderKeeps(Val(foldername), bookmarks[i])])

DomainKeeps(domain, b) ==
    LET items == DomainItems(domain)
    IN  0 # Cardinality({ i \in DOMAIN items : Contains(Lower(items[i]), Lower(b.url)) })

FilterDomain(bookmarks, domain) ==
    IF domain.kind = "none" THEN bookmarks
    ELSE SelectSeqBy(bookmarks,
            [i \in DOMAIN bookmarks |-> DomainKeeps(domain, bookmarks[i])])

SortByDateAdded(bookmarks, reverse) ==
    ListSort(bookmarks, [i \in DOMAIN bookmarks |-> bookmarks[i].date_added], reverse)

\* Faulty variant: the second sort leaves out reverse=reverse.
SortBySortbyForward(bookmarks, sortby, reverse) ==
    IF IsNone(sortby) \/ Val(sortby) = "" THEN Returned(bookmarks)
    ELSE IF bookmarks # << >> /\ Val(sortby) \notin BookmarkFields
    THEN Raised("InvalidSortAttributeError", Val(sortby))
    ELSE Returned(ListSort(bookmarks,
                    [i \in DOMAIN bookmarks |-> bookmarks[i][Val(sortby)]], FALSE))

\* the second sort: getattr raises AttributeError for the first bookmark
\* when sortby is no attribute, and for none when there is no bookmark
SortBySortby(bookmarks, sortby, reverse) ==
    IF IsNone(sortby) \/ Val(sortby) = "" THEN Returned(bookmarks)
    ELSE IF bookmarks # << >> /\ Val(sortby) \notin BookmarkFields
    THEN Raised("InvalidSortAttributeError", Val(sortby))
    ELSE Returned(ListSort(bookmarks,
                    [i \in DOMAIN bookmarks |-> bookmarks[i][Val(sortby)]], reverse))

get_bookmarks(self, fs, foldername, domain, sortby, reverse) ==
    IF self.browser_family # "CHROME" THEN Raised("NotImplementedError", self.browser_family)
    ELSE
    LET dicts == read_bookmarks_Chrome(fs, self.bookmarks_file)
    IN  IF dicts.kind = "raise" THEN dicts
        ELSE LET bookmarks == convert_bookmarks_to_objects(dicts.val)
                 inFolder == FilterFolder(bookmarks, foldername)
                 inDomain == FilterDomain(inFolder, WrapDomain(domain))
             IN  SortBySortby(SortByDateAdded(inDomain, reverse), sortby, reverse)

-----------------------------------------------------------------------------
(* OS detection *)

S_microsoft == <<"m", "i", "c", "r", "o", "s", "o", "f", "t">>

is_Windows(pf) == pf.system = "Windows"

is_WSL(pf) == pf.system = "Linux" /\ Contains(S_microsoft, Lower(pf.release))

is_Linux(pf) == pf.system = "Linux" /\ ~is_WSL(pf)

-----------------------------------------------------------------------------
(* Construction: browser family and bookmarks file *)

S_chrome == <<"c", "h", "r", "o", "m", "e">>
S_chromium == <<"c", "h", "r", "o", "m", "i", "u", "m">>
S_brave == <<"b", "r", "a", "v", "e">>
S_bravesoftware == <<"b", "r", "a", "v", "e", "s", "o", "f", "t", "w", "a", "r", "e">>
S_edge == <<"e", "d", "g", "e">>
S_firefox == <<"f", "i", "r", "e", "f", "o", "x">>
S_waterfox == <<"w", "a", "t", "e", "r", "f", "o", "x">>
S_librewolf == <<"l", "i", "b", "r", "e", "w", "o", "l", "f">>

ChromeNames == {S_chrome, S_chromium, S_brave, S_bravesoftware, S_edge}
FirefoxNames == {S_firefox, S_waterfox, S_librewolf}

get_browser_family(browser) ==
    IF Lower(browser) \in ChromeNames THEN Returned("CHROME")
    ELSE IF Lower(browser) \in FirefoxNames THEN Returned("FIREFOX")
    ELSE Raised("Exception", <<"unknown browser family for", browser>>)

\* A path is the sequence of its components; a Windows path starts with its
\* drive.  The two placeholders of a template are components of their own.
MarkLocalAppData == "%localappdata%"
MarkProfile == "BROWSER_PROFILE_NAME"

DEFAULT_PATHS_WINDOWS ==
    (S_chrome :> <<MarkLocalAppData, "Google", "Chrome", "User Data", MarkProfile, "Bookmarks">>)
    @@ (S_brave :> <<MarkLocalAppData, "BraveSoftware", "Brave-Browser", "User Data",
                     MarkProfile, "Bookmarks">>)
    @@ (S_firefox :> << >>)

\* path.replace(marker, value), value a path itself
RECURSIVE ReplaceComponent(_, _, _)
ReplaceComponent(path, marker, value) ==
    IF path = << >> THEN << >>
    ELSE (IF Head(path) = marker THEN value ELSE << Head(path) >>)
         \o ReplaceComponent(Tail(path), marker, value)

\* DEFAULT_PATHS_WINDOWS.get(browser, None), then the two substitutions
DefaultPath(browser, profile, localappdata) ==
    IF browser \notin DOMAIN DEFAULT_PATHS_WINDOWS
    THEN Raised("Exception", <<"unknown default bookmarks path for", browser>>)
    ELSE Returned(ReplaceComponent(
                    ReplaceComponent(DEFAULT_PATHS_WINDOWS[browser], MarkLocalAppData, localappdata),
                    MarkProfile, << profile >>))

\* os.getenv('LOCALAPPDATA', 'None')
GetenvLocalAppData(env) == IF IsNone(env) THEN << "None" >> ELSE Val(env)

get_bookmarks_file_Windows(env, browser, profile) ==
    DefaultPath(browser, profile, GetenvLocalAppData(env))

\* wsl_paths.convert_to_wsl_path: drive X: becomes /mnt/x, the components stay
DriveMounts == ("C:" :> "/mnt/c") @@ ("D:" :> "/mnt/d")

convert_to_wsl_path(path) ==
    IF path # << >> /\ Head(path) \in DOMAIN DriveMounts
    THEN << DriveMounts[Head(path)] >> \o Tail(path)
    ELSE path

get_bookmarks_file_WSL(browser, profile, localappdata) ==
    LET p == DefaultPath(browser, profile, localappdata)
    IN  IF p.kind = "raise" THEN p ELSE Returned(convert_to_wsl_path(p.val))

get_bookmarks_file(pf, env, fs, browser, profile, localappdata) ==
    LET file ==
            IF is_Windows(pf) THEN get_bookmarks_file_Windows(env, browser, profile)
            ELSE IF is_WSL(pf)
            THEN IF IsNone(localappdata)
                 THEN Raised("Exception", <<"must declare localappdata folder when in WSL">>)
                 ELSE get_bookmarks_file_WSL(browser, profile, Val(localappdata))
            ELSE IF is_Linux(pf)
            THEN Raised("NotImplementedError", <<"no support for linux yet">>)
            ELSE Raised("Exception", <<"operating system not known to mankind">>)
    IN  IF file.kind = "raise" THEN file
        ELSE IF file.val \notin DOMAIN fs
        THEN Raised("FileNotFoundError", <<profile, file.val>>)
        ELSE file

\* BookmarksGetter.__init__: the instance, or what it raises
BookmarksGetterInit(pf, env, fs, browser, profile, localappdata) ==
    LET family == get_browser_family(browser)
    IN  IF family.kind = "raise" THEN family
        ELSE IF family.val = "FIREFOX"
        THEN Raised("NotImplementedError", <<"no support for firefox yet">>)
        ELSE LET file == get_bookmarks_file(pf, env, fs, browser, profile, localappdata)
             IN  IF file.kind = "raise" THEN file
                 ELSE Returned([browser_family |-> family.val, bookmarks_file |-> file.val])

-----------------------------------------------------------------------------
(* Environments *)

PfWindows == [system |-> "Windows", release |-> <<"1", "0">>]
PfWSL2 == [system |-> "Linux", release |-> <<"5", ".", "1", "5", ".", "9", "0", ".", "1", "-", "m", "i", "c", "r", "o", "s", "o", "f", "t", "-", "s", "t", "a", "n", "d", "a", "r", "d", "-", "W", "S", "L", "2">>]
PfWSL1 == [system |-> "Linux", release |-> <<"4", ".", "4", ".", "0", "-", "1", "9", "0", "4", "1", "-", "M", "i", "c", "r", "o", "s", "o", "f", "t">>]
PfLinux == [system |-> "Linux", release |-> <<"6", ".", "1", ".", "0", "-", "g", "e", "n", "e", "r", "i", "c">>]
PfDarwin == [system |-> "Darwin", release |-> <<"2", "3", ".", "1", ".", "0">>]

Platforms == {PfWindows, PfWSL2, PfWSL1, PfLinux, PfDarwin}

LocalAppData == <<"C:", "Users", "stirl", "AppData", "Local">>

Profiles == {"Default", "Profile 6"}

NoFiles == << >>

-----------------------------------------------------------------------------
(* The static helper on its own: _windows_epoch_readable(us) *)

\* days after 1601-01-01 the inputs reach
MaxEpochDays == 40

\* str(n) for the microsecond count of `seconds` whole seconds and `micros`
Microseconds(seconds, micros) ==
    IF seconds = 0 THEN Pad(micros, 1) ELSE Pad(seconds, 1) \o Pad(micros, 6)

EpochInputs ==
    { Microseconds(d * 86400 + s, m) :
        d \in 0..MaxEpochDays, s \in {0, 1, 86399}, m \in {0, 1, 999999} }
    \cup { <<"1", "3", "3", "0", "0", "0", "0", "0", "0", "0", "0", "1", "2", "3", "4", "5", "6">>,
           <<"1", "3", "3", "0", "0", "0", "0", "0", "0", "0", "0", "0", "0", "0", "0", "0", "0">> }

InitEpoch ==
    /\ platform = PfWSL2
    /\ environ = None
    /\ disk = NoFiles
    /\ getter = None
    /\ call = Idle
    /\ ret = NoRet

WindowsEpochReadable ==
    \E us \in EpochInputs :
        /\ call' = [op |-> "_windows_epoch_readable", us |-> us]
        /\ ret' = windows_epoch_readable(us)
        /\ UNCHANGED <<platform, environ, disk, getter>>

NextEpoch == WindowsEpochReadable

SpecEpoch == InitEpoch /\ [][NextEpoch]_vars

\* C2: for every non-negative microsecond count, _windows_epoch_readable
\* returns the 19-character "YYYY-MM-DD HH:MM:SS" rendering of 1601-01-01
\* plus floor(us / 1,000,000) seconds; "0" gives "1601-01-01 00:00:00" and
\* "86400000000" gives "1601-01-02 00:00:00".
C2_RendersWholeSeconds ==
    call.op = "_windows_epoch_readable" =>
        /\ ret.kind = "return"
        /\ Len(ret.val) = 19
        /\ ret.val = IsoSeconds(EpochPlus(Timedelta(call.us)))
        /\ call.us = <<"0">> => ret.val = <<"1", "6", "0", "1", "-", "0", "1", "-", "0", "1", " ", "0", "0", ":", "0", "0", ":", "0", "0">>
        /\ call.us = <<"8", "6", "4", "0", "0", "0", "0", "0", "0", "0", "0">>
              => ret.val = <<"1", "6", "0", "1", "-", "0", "1", "-", "0", "2", " ", "0", "0", ":", "0", "0", ":", "0", "0">>

-----------------------------------------------------------------------------
(* Construction on its own: BookmarksGetter(browser, profile, localappdata) *)

B_Chrome == <<"C", "h", "r", "o", "m", "e">>
B_CHROME == <<"C", "H", "R", "O", "M", "E">>
B_Brave == <<"B", "r", "a", "v", "e">>
B_safari == <<"s", "a", "f", "a", "r", "i">>

Browsers == {S_chrome, B_Chrome, B_CHROME, S_brave, B_Brave, S_edge, S_firefox, B_safari}

WindowsFiles ==
    (<<"C:", "Users", "stirl", "AppData", "Local", "Google", "Chrome", "User Data",
       "Default", "Bookmarks">> :> << >>)
    @@ (<<"C:", "Users", "stirl", "AppData", "Local", "BraveSoftware", "Brave-Browser",
          "User Data", "Profile 6", "Bookmarks">> :> << >>)

WSLFiles ==
    (<<"/mnt/c", "Users", "stirl", "AppData", "Local", "Google", "Chrome", "User Data",
       "Default", "Bookmarks">> :> << >>)
    @@ (<<"/mnt/c", "Users", "stirl", "AppData", "Local", "BraveSoftware", "Brave-Browser",
          "User Data", "Profile 6", "Bookmarks">> :> << >>)

InitConstruct ==
    /\ platform \in Platforms
    /\ environ \in {None, Some(LocalAppData)}
    /\ disk \in {NoFiles, WindowsFiles, WSLFiles}
    /\ getter = None
    /\ call = Idle
    /\ ret = NoRet

Construct ==
    \E browser \in Browsers, profile \in Profiles, localappdata \in {None, Some(LocalAppData)} :
        LET r == BookmarksGetterInit(platform, environ, disk, browser, profile, localappdata)
        IN  /\ call' = [op |-> "__init__", browser |-> browser, profile |-> profile,
                        localappdata |-> localappdata]
            /\ ret' = r
            /\ getter' = IF r.kind = "return" THEN Some(r.val) ELSE getter
            /\ UNCHANGED <<platform, environ, disk>>

NextConstruct == Construct

SpecConstruct == InitConstruct /\ [][NextConstruct]_vars

\* C4: on native Windows and on WSL, browser identifiers that differ only in
\* letter case ("chrome", "Chrome", "CHROME"; "brave", "Brave") resolve to
\* the same bookmarks path as their lower-cased form, and none of them
\* raises the "unknown default bookmarks path" error.
C4_BrowserCaseInsensitive ==
    ( /\ call.op = "__init__"
      /\ is_Windows(platform) \/ is_WSL(platform)
      /\ Lower(call.browser) \in {S_chrome, S_brave} )
    => /\ ret = BookmarksGetterInit(platform, environ, disk, Lower(call.browser),
                                    call.profile, call.localappdata)
       /\ ~(ret.kind = "raise" /\ ret.arg[1] = "unknown default bookmarks path for")

-----------------------------------------------------------------------------
(* The flattening walk: the browser builds the bookmarks file node by node, *)
(* then _read_bookmarks_Chrome reads it.                                     *)

\* nodes the browser puts in the file
MaxNodes == 4

FolderNames == { << >>, <<"A">> }

BookmarksFile ==
    <<"/mnt/c", "Users", "stirl", "AppData", "Local", "BraveSoftware", "Brave-Browser",
      "User Data", "Profile 6", "Bookmarks">>

\* the instance the repository's test constructs: brave, 'Profile 6', on WSL
TestGetter(fs) ==
    BookmarksGetterInit(PfWSL2, None, fs, S_brave, "Profile 6", Some(LocalAppData))

UrlNode(id, name, url, added, used) ==
    [type |-> TypeUrl, id |-> id, name |-> name, url |-> url,
     date_added |-> added, date_last_used |-> used, guid |-> <<"g">> \o id]

FolderNode(name, children) == [type |-> TypeFolder, name |-> name, children |-> children]

U_example == <<"h", "t", "t", "p", "s", ":", "/", "/", "e", "x", "a", "m", "p", "l", "e", ".", "c", "o", "m">>
D_usual == <<"1", "3", "3", "0", "0", "0", "0", "0", "0", "0", "0", "1", "2", "3", "4", "5", "6">>

RECURSIVE NodeCount(_)
NodeCount(array) ==
    IF array = << >> THEN 0
    ELSE 1 + (IF Head(array).type = TypeFolder THEN NodeCount(Head(array).children) ELSE 0)
           + NodeCount(Tail(array))

\* the index paths of the folders of the tree, the root's being << >>
RECURSIVE FolderPaths(_)
FolderPaths(array) ==
    { << >> } \cup
    UNION { { << i >> \o p : p \in FolderPaths(array[i].children) } :
            i \in { k \in DOMAIN array : array[k].type = TypeFolder } }

RECURSIVE AppendAt(_, _, _)
AppendAt(array, path, node) ==
    IF path = << >> THEN Append(array, node)
    ELSE [array EXCEPT ![Head(path)] =
            FolderNode(array[Head(path)].name,
                       AppendAt(array[Head(path)].children, Tail(path), node))]

InitFlatten ==
    /\ platform = PfWSL2
    /\ environ = None
    /\ disk = (BookmarksFile :> << >>)
    /\ getter = Some(TestGetter(disk).val)
    /\ call = Idle
    /\ ret = NoRet

BrowserAddsUrl ==
    /\ call = Idle
    /\ NodeCount(disk[BookmarksFile]) < MaxNodes
    /\ \E path \in FolderPaths(disk[BookmarksFile]) :
          disk' = [disk EXCEPT ![BookmarksFile] =
                      AppendAt(@, path,
                               UrlNode(Pad(NodeCount(@) + 1, 1), <<"n">>, U_example,
                                       D_usual, D_usual))]
    /\ UNCHANGED <<platform, environ, getter, call, ret>>

BrowserAddsFolder ==
    /\ call = Idle
    /\ NodeCount(disk[BookmarksFile]) < MaxNodes
    /\ \E path \in FolderPaths(disk[BookmarksFile]), name \in FolderNames :
          disk' = [disk EXCEPT ![BookmarksFile] = AppendAt(@, path, FolderNode(name, << >>))]
    /\ UNCHANGED <<platform, environ, getter, call, ret>>

ReadBookmarksChrome ==
    /\ call = Idle
    /\ call' = [op |-> "_read_bookmarks_Chrome", file |-> Val(getter).bookmarks_file]
    /\ ret' = read_bookmarks_Chrome(disk, Val(getter).bookmarks_file)
    /\ UNCHANGED <<platform, environ, disk, getter>>

NextFlatten == BrowserAddsUrl \/ BrowserAddsFolder \/ ReadBookmarksChrome

SpecFlatten == InitFlatten /\ [][NextFlatten]_vars

\* The url-nodes of the tree in depth-first order, each with the names of
\* its ancestor folders (root first) and the index path of its parent folder.
RECURSIVE UrlNodes(_, _, _, _)
UrlNodes(array, i, chain, parent) ==
    IF i > Len(array) THEN << >>
    ELSE (IF array[i].type = TypeUrl
          THEN << [id |-> array[i].id, chain |-> chain, parent |-> parent] >>
          ELSE IF array[i].type = TypeFolder
          THEN UrlNodes(array[i].children, 1, Append(chain, array[i].name),
                        Append(parent, i))
          ELSE << >>)
         \o UrlNodes(array, i + 1, chain, parent)

TreeUrlNodes == UrlNodes(disk[BookmarksFile], 1, << >>, << >>)

\* "/".join(chain)
RECURSIVE Join(_)
Join(chain) ==
    IF chain = << >> THEN << >>
    ELSE IF Len(chain) = 1 THEN chain[1]
    ELSE chain[1] \o <<"/">> \o Join(Tail(chain))

WalkDone == call.op = "_read_bookmarks_Chrome" /\ ret.kind = "return"

\* C5: every record the flattening walk emits has location equal to the
\* names of all its ancestor folders, root first, joined by "/" (the empty
\* string for a url-node at the root), for every folder name, the empty
\* name included.
C5_LocationIsAncestorChain ==
    WalkDone =>
        /\ Len(ret.val) = Len(TreeUrlNodes)
        /\ \A i \in DOMAIN ret.val :
              /\ ret.val[i].id = TreeUrlNodes[i].id
              /\ ret.val[i].location = Join(TreeUrlNodes[i].chain)

\* C9 as stated: two url-nodes get the same location if and only if they
\* are direct children of the same folder node (or both of the root).
C9_SameLocationIffSameFolder ==
    WalkDone =>
        \A i, j \in DOMAIN ret.val :
            (ret.val[i].location = ret.val[j].location)
                <=> (TreeUrlNodes[i].parent = TreeUrlNodes[j].parent)

\* C9 as amended: url-nodes that are direct children of the same folder node
\* (or both of the root) get the same location, so the url-children of one
\* folder never fall into two groups.
C9_SameFolderSameLocation ==
    WalkDone =>
        /\ Len(ret.val) = Len(TreeUrlNodes)
        /\ \A i, j \in DOMAIN ret.val :
              (TreeUrlNodes[i].parent = TreeUrlNodes[j].parent)
                  => (ret.val[i].location = ret.val[j].location)

\* Two url-nodes of one folder with a sub-folder between them, and a
\* url-node elsewhere with another location, have been flattened.
C9_Witness ==
    /\ WalkDone
    /\ \E i, j, k \in DOMAIN ret.val :
          /\ i + 1 < j
          /\ TreeUrlNodes[i].parent = TreeUrlNodes[j].parent
          /\ ret.val[k].location # ret.val[i].location

-----------------------------------------------------------------------------
(* Queries: get_bookmarks(foldername, domain, sortby, reverse) on a          *)
(* bookmarks file that holds some of the bookmarks of QueryPool, each in     *)
(* its folder chain, in any order.                                           *)

\* url-nodes in the file
MaxBookmarks == 3

N_Work == <<"W", "o", "r", "k">>
N_Sub == <<"S", "u", "b">>
N_Deep == <<"D", "e", "e", "p">>
N_Other == <<"O", "t", "h", "e", "r">>

U_github == <<"h", "t", "t", "p", "s", ":", "/", "/", "g", "i", "t", "h", "u", "b", ".", "c", "o", "m", "/", "x">>
U_gitlab == <<"h", "t", "t", "p", "s", ":", "/", "/", "G", "i", "t", "L", "a", "b", ".", "c", "o", "m", "/", "y">>

D_sameSecond == <<"1", "3", "3", "0", "0", "0", "0", "0", "0", "0", "0", "9", "9", "9", "9", "9", "9">>
D_later == <<"1", "3", "3", "0", "0", "0", "0", "0", "0", "0", "1", "1", "2", "3", "4", "5", "6">>
D_earlier == <<"1", "3", "2", "9", "9", "9", "9", "9", "9", "9", "9", "1", "2", "3", "4", "5", "6">>

\* Bookmarks 1 and 2 are added within the same second; 1 and 4 share their
\* url, and 1, 2 and 4 their name.
QueryPool ==
    { [chain |-> <<N_Work>>,
       node |-> UrlNode(<<"1">>, <<"b">>, U_github, D_usual, D_usual)],
      [chain |-> <<N_Work, N_Sub>>,
       node |-> UrlNode(<<"2">>, <<"b">>, U_example, D_sameSecond, D_usual)
                @@ [date_modified |-> D_later]],
      [chain |-> <<N_Work, N_Sub, N_Deep>>,
       node |-> UrlNode(<<"3">>, <<"a">>, U_gitlab, D_earlier, D_later)],
      [chain |-> <<N_Other>>,
       node |-> UrlNode(<<"4">>, <<"b">>, U_github, D_later, D_later)] }

RECURSIVE InFolders(_, _)
InFolders(chain, node) ==
    IF chain = << >> THEN node
    ELSE FolderNode(Head(chain), << InFolders(Tail(chain), node) >>)

\* the files: up to MaxBookmarks distinct bookmarks of the pool, in any order
QueryFiles ==
    UNION { { [i \in 1..k |-> InFolders(q[i].chain, q[i].node)] :
                q \in { p \in [1..k -> QueryPool] :
                          \A i, j \in 1..k : p[i] = p[j] => i = j } } :
            k \in 0..MaxBookmarks }

F_or == <<"o", "r">>
F_WorkSub == <<"W", "o", "r", "k", "/", "S", "u", "b">>
A_GitHub == <<"G", "i", "t", "H", "u", "b", ".", "c", "o", "m">>
A_github == <<"g", "i", "t", "h", "u", "b", ".", "c", "o", "m">>
A_gitlab == <<"g", "i", "t", "l", "a", "b", ".", "c", "o", "m">>

FolderArgs == {None, Some(N_Work), Some(F_or), Some(F_WorkSub)}

DomainArgs ==
    {DomainNone, DomainStr(A_GitHub), DomainList(<<A_github, A_gitlab>>),
     DomainStr(<< >>), DomainList(<< << >> >>), DomainList(<< >>)}

SortArgs == {None, Some("url"), Some("name"), Some("nonexistent_field")}

InitQuery ==
    /\ platform = PfWSL2
    /\ environ = None
    /\ disk \in { (BookmarksFile :> f) : f \in QueryFiles }
    /\ getter = Some(TestGetter(disk).val)
    /\ call = Idle
    /\ ret = NoRet

\* get_bookmarks reads self and the file and writes neither, so one call per
\* behaviour covers every call.
GetBookmarks ==
    \E foldername \in FolderArgs, domain \in DomainArgs, sortby \in SortArgs,
       reverse \in BOOLEAN :
        /\ call = Idle
        /\ call' = [op |-> "get_bookmarks", foldername |-> foldername, domain |-> domain,
                    sortby |-> sortby, reverse |-> reverse]
        /\ ret' = get_bookmarks(Val(getter), disk, foldername, domain, sortby, reverse)
        /\ UNCHANGED <<platform, environ, disk, getter>>

NextQuery == GetBookmarks

SpecQuery == InitQuery /\ [][NextQuery]_vars

-----------------------------------------------------------------------------
(* Definitions the properties of get_bookmarks are stated with *)

QueryDone == call.op = "get_bookmarks" /\ ret.kind = "return"

\* every Bookmark of the file, in the order of the walk
AllBookmarks ==
    convert_bookmarks_to_objects(read_bookmarks_Chrome(disk, Val(getter).bookmarks_file).val)

Ids(bookmarks) == { bookmarks[i].id : i \in DOMAIN bookmarks }

SourceIndex(all, id) == CHOOSE k \in DOMAIN all : all[k].id = id

\* a occurs in b as a run of consecutive characters
IsSubstring(a, b) ==
    \E i \in 1..(Len(b) + 1) :
        /\ i - 1 + Len(a) <= Len(b)
        /\ \A k \in 1..Len(a) : b[i - 1 + k] = a[k]

\* seg, which holds no "/", is one of the "/"-separated segments of s
IsSegment(seg, s) ==
    \E i \in 1..(Len(s) + 1) :
        /\ i = 1 \/ s[i - 1] = "/"
        /\ i - 1 + Len(seg) <= Len(s)
        /\ \A k \in 1..Len(seg) : s[i - 1 + k] = seg[k]
        /\ i + Len(seg) = Len(s) + 1 \/ s[i + Len(seg)] = "/"

\* the bookmarks the domain filter alone keeps, whatever the folder
KeptByDomain(domain) ==
    Ids(get_bookmarks(Val(getter), disk, None, domain, None, FALSE).val)

\* the bookmarks the folder filter alone keeps
KeptByFolder(foldername) ==
    Ids(get_bookmarks(Val(getter), disk, foldername, DomainNone, None, FALSE).val)

L_WorkSub == <<"W", "o", "r", "k", "/", "S", "u", "b">>
L_WorkSubDeep == <<"W", "o", "r", "k", "/", "S", "u", "b", "/", "D", "e", "e", "p">>

\* C1 as stated: with foldername "Work" the result holds only the bookmarks
\* whose location is "Work"; those at "Work/Sub" or deeper are not returned.
C1_WorkKeepsOnlyWork ==
    (QueryDone /\ call.foldername = Some(N_Work)) =>
        \A i \in DOMAIN ret.val : ret.val[i].location = N_Work

\* C1 as amended: with foldername "Work" and no domain filter the result
\* holds exactly the bookmarks located at "Work", "Work/Sub" and
\* "Work/Sub/Deep" (every location with a segment "Work"), and none of
\* those at "Other".
C1_WorkKeepsSubfolders ==
    (QueryDone /\ call.foldername = Some(N_Work) /\ call.domain = DomainNone) =>
        LET all == AllBookmarks
            kept == Ids(ret.val)
        IN  \A i \in DOMAIN all :
                (all[i].id \in kept)
                    <=> (all[i].location \in {N_Work, L_WorkSub, L_WorkSubDeep})

\* "Work" was asked of a file with bookmarks at "Work", below it and at "Other".
C1_Witness ==
    /\ QueryDone /\ call.foldername = Some(N_Work) /\ call.domain = DomainNone
    /\ \E i, j \in DOMAIN ret.val :
          ret.val[i].location = N_Work /\ ret.val[j].location = L_WorkSub
    /\ \E k \in DOMAIN AllBookmarks : AllBookmarks[k].location = N_Other

\* C3: every call whose sortby is not an attribute of Bookmark raises
\* InvalidSortAttributeError naming that value, whatever the file holds and
\* whatever the filters leave (zero bookmarks included).
C3_UnknownSortbyRaises ==
    ( /\ call.op = "get_bookmarks"
      /\ ~IsNone(call.sortby)
      /\ Val(call.sortby) \notin BookmarkFields )
    => ret = Raised("InvalidSortAttributeError", Val(call.sortby))

\* C6: the folder filter is case-insensitive and keeps exactly: for a
\* foldername with "/", the bookmarks whose lower-cased location contains
\* the lower-cased foldername; for one without, those whose lower-cased
\* location has a "/"-separated segment equal to the lower-cased foldername.
C6_FolderFilter ==
    (QueryDone /\ ~IsNone(call.foldername)) =>
        LET f == Lower(Val(call.foldername))
            all == AllBookmarks
            kept == Ids(ret.val)
            inDomain == KeptByDomain(call.domain)
        IN  \A i \in DOMAIN all :
                LET b == all[i]
                IN  (b.id \in kept)
                        <=> /\ b.id \in inDomain
                            /\ IF "/" \in Range(f)
                               THEN IsSubstring(f, Lower(b.location))
                               ELSE IsSegment(f, Lower(b.location))

\* "Work/Sub" was asked of a file with bookmarks at "Work", "Work/Sub" and
\* "Work/Sub/Deep", and the last two were returned.
C6_Witness ==
    /\ QueryDone /\ call.foldername = Some(F_WorkSub) /\ call.domain = DomainNone
    /\ { AllBookmarks[i].location : i \in DOMAIN AllBookmarks }
          = {N_Work, L_WorkSub, L_WorkSubDeep}
    /\ { ret.val[i].location : i \in DOMAIN ret.val } = {L_WorkSub, L_WorkSubDeep}

\* the domain strings a caller gave: the string itself, or the list's elements
GivenDomains(domain) ==
    IF domain.kind = "str" THEN { domain.val } ELSE Range(domain.val)

\* C7: when domain is one string or a list of strings, a bookmark that
\* passed the folder filter is kept if and only if at least one of the given
\* strings, lower-cased, occurs in its lower-cased url; one string behaves
\* like the list of that string.
C7_DomainFilter ==
    (QueryDone /\ call.domain.kind # "none") =>
        LET all == AllBookmarks
            kept == Ids(ret.val)
            inFolder == KeptByFolder(call.foldername)
        IN  \A i \in DOMAIN all :
                LET b == all[i]
                IN  (b.id \in kept)
                        <=> /\ b.id \in inFolder
                            /\ \E dom \in GivenDomains(call.domain) :
                                  IsSubstring(Lower(dom), Lower(b.url))

\* the value get_bookmarks last sorted by
SortKey(b) == IF IsNone(call.sortby) THEN b.date_added ELSE b[Val(call.sortby)]

DistinctSortKeys ==
    \A i, j \in DOMAIN ret.val : SortKey(ret.val[i]) = SortKey(ret.val[j]) => i = j

\* C8: for the same file, foldername, domain and sortby, if the sort keys of
\* the filtered bookmarks are pairwise distinct, the list returned with the
\* other value of reverse is this list in reversed order.
C8_ReverseReverses ==
    (QueryDone /\ DistinctSortKeys) =>
        get_bookmarks(Val(getter), disk, call.foldername, call.domain, call.sortby,
                      ~call.reverse)
            = Returned([i \in DOMAIN ret.val |-> ret.val[Len(ret.val) + 1 - i]])

\* three bookmarks with distinct urls came back sorted by url, reversed
C8_Witness ==
    /\ QueryDone /\ call.reverse /\ call.sortby = Some("url")
    /\ Len(ret.val) = 3
    /\ DistinctSortKeys

\* C10: with sortby the result is ordered by that attribute in the direction
\* of reverse; bookmarks with equal sortby values are in date_added order
\* (ascending without reverse, descending with it); bookmarks equal in both
\* are in the order of the depth-first walk of the file.
C10_SortbyThenDateThenSource ==
    (QueryDone /\ ~IsNone(call.sortby) /\ Val(call.sortby) \in BookmarkFields) =>
        LET all == AllBookmarks
        IN
        \A i, j \in DOMAIN ret.val :
            i < j =>
                LET a == ret.val[i]
                    b == ret.val[j]
                    ka == a[Val(call.sortby)]
                    kb == b[Val(call.sortby)]
                IN  /\ IF call.reverse THEN ~StrLess(ka, kb) ELSE ~StrLess(kb, ka)
                    /\ ka = kb =>
                          IF call.reverse
                          THEN ~StrLess(a.date_added, b.date_added)
                          ELSE ~StrLess(b.date_added, a.date_added)
                    /\ (ka = kb /\ a.date_added = b.date_added) =>
                          SourceIndex(all, a.id) < SourceIndex(all, b.id)

\* a reversed sort by name returned three bookmarks of one name, two of them
\* of one date_added and the third of another
C10_Witness ==
    /\ QueryDone /\ call.reverse /\ call.sortby = Some("name")
    /\ Len(ret.val) = 3
    /\ \A i \in DOMAIN ret.val : ret.val[i].name = ret.val[1].name
    /\ \E i, j, k \in DOMAIN ret.val :
          /\ i # j
          /\ ret.val[i].date_added = ret.val[j].date_added
          /\ ret.val[k].date_added # ret.val[i].date_added

=============================================================================
